---- MODULE Spec2Model ----
(***************************************************************************)
(* Model of the document-intake service (backend/): the documents and      *)
(* processing_logs tables, the upload / process / status / delete request  *)
(* handlers and the background unit process_document_task, step by step    *)
(* between its awaits.                                                     *)
(*                                                                         *)
(* Nullable values are options: None is NULL / Python None / JSON null,    *)
(* Some(v) is a present value.  Strings that the code searches or lower-   *)
(* cases are sequences of one-character strings.                           *)
(***************************************************************************)
EXTENDS Integers, Sequences, FiniteSets, TLC

\* ------------------------------------------------------------------ bounds
\* Largest document id the model uploads.
MaxDocs == 1
\* Number of background units (accepted start requests) the model launches.
MaxUnits == 2
\* Number of upload requests the model makes.
MaxUploads == 2
\* Number of export files the model writes.
MaxExports == 1

DocIds == 1..MaxDocs

\* ----------------------------------------------------------------- options
None == <<>>
Some(v) == <<v>>

\* ------------------------------------------------------- extraction replies
\* What one call of the external model ends in: the client raises
\* (network / auth / quota / the client's own timeout), or it returns a
\* content string that json.loads rejects, or one that parses to an object.
\* An object is a function from the keys it has to their values.
FieldTotal == <<"T", "o", "t", "a", "l">>
FieldInvoiceDate == <<"I", "n", "v", "o", "i", "c", "e", " ", "D", "a", "t", "e">>

ReplyInvoice ==
    [kind |-> "object",
     json |-> [document_type |-> Some("invoice"),
               confidence_score |-> Some(920),
               fields |-> Some(<< [field_name |-> Some(FieldTotal), confidence |-> Some(950)],
                             [field_name |-> Some(FieldInvoiceDate), confidence |-> Some(900)] >>),
               line_items |-> Some(<< >>),
               raw_text |-> Some(FieldTotal),
               metadata |-> Some(<< >>)]]
\* An object of the prompted shape whose confidences are outside 0..1.
ReplyOutOfRange ==
    [kind |-> "object",
     json |-> [document_type |-> Some("invoice"),
               confidence_score |-> Some(1500),
               fields |-> Some(<< [field_name |-> Some(FieldTotal), confidence |-> Some(1200)],
                             [field_name |-> Some(FieldInvoiceDate), confidence |-> Some(-100)] >>),
               line_items |-> Some(<< >>),
               raw_text |-> Some(FieldTotal),
               metadata |-> Some(<< >>)]]
\* An object that lacks most of the prompted keys and whose type is null.
ReplyNullType ==
    [kind |-> "object",
     json |-> [document_type |-> None,
               fields |-> Some(<< >>)]]
ReplyMalformed == [kind |-> "malformed"]
ReplyTransportError == [kind |-> "transport_error"]
\* _prepare_image raised before any call was made (unreadable file, PDF
\* without a page).
ImageUnreadable == [kind |-> "image_error"]

Replies ==
    {ReplyInvoice, ReplyOutOfRange, ReplyNullType, ReplyMalformed, ReplyTransportError,
     ImageUnreadable}

\* --------------------------------------------------------------- strings
\* str.lower() on the letters A-Z; every other character is kept.
Upper == <<"A", "B", "C", "D", "E", "F", "G", "H", "I", "J", "K", "L", "M", "N", "O", "P", "Q", "R", "S", "T", "U", "V", "W", "X", "Y", "Z">>
LowerOf == <<"a", "b", "c", "d", "e", "f", "g", "h", "i", "j", "k", "l", "m", "n", "o", "p", "q", "r", "s", "t", "u", "v", "w", "x", "y", "z">>
LowerChar(c) ==
    IF \E i \in 1..Len(Upper) : Upper[i] = c
    THEN LowerOf[CHOOSE i \in 1..Len(Upper) : Upper[i] = c]
    ELSE c
Lower(s) == [i \in 1..Len(s) |-> LowerChar(s[i])]

\* Python's  term in text  on strings: term occurs as a contiguous run.
IsSubstr(term, text) ==
    \E i \in 0..(Len(text) - Len(term)) :
        \A j \in 1..Len(term) : text[i + j] = term[j]

\* sep.join(names)
RECURSIVE Join(_, _)
Join(sep, names) ==
    IF names = <<>> THEN <<>>
    ELSE IF Len(names) = 1 THEN names[1]
    ELSE names[1] \o sep \o Join(sep, Tail(names))

\* The literals of _categorize_document and _validate_data.
Kw_invoice == <<"i", "n", "v", "o", "i", "c", "e">>
Kw_inv_no == <<"i", "n", "v", " ", "n", "o">>
Kw_invoice_number == <<"i", "n", "v", "o", "i", "c", "e", " ", "n", "u", "m", "b", "e", "r">>
Kw_receipt == <<"r", "e", "c", "e", "i", "p", "t">>
Kw_transaction == <<"t", "r", "a", "n", "s", "a", "c", "t", "i", "o", "n">>
Kw_purchase_order == <<"p", "u", "r", "c", "h", "a", "s", "e", " ", "o", "r", "d", "e", "r">>
Kw_po_number == <<"p", "o", " ", "n", "u", "m", "b", "e", "r">>
Kw_bill == <<"b", "i", "l", "l">>
Kw_billing == <<"b", "i", "l", "l", "i", "n", "g">>
Key_total == <<"t", "o", "t", "a", "l">>
Key_amount == <<"a", "m", "o", "u", "n", "t">>
Key_total_amount == <<"t", "o", "t", "a", "l", " ", "a", "m", "o", "u", "n", "t">>
Key_grand_total == <<"g", "r", "a", "n", "d", " ", "t", "o", "t", "a", "l">>
Key_date == <<"d", "a", "t", "e">>
Key_invoice_date == <<"i", "n", "v", "o", "i", "c", "e", " ", "d", "a", "t", "e">>
Key_receipt_date == <<"r", "e", "c", "e", "i", "p", "t", " ", "d", "a", "t", "e">>

\* ------------------------------------------------------------ numbers
\* Confidences are counted in thousandths (0.7 is 700); a float result is
\* the exact fraction num/den in lowest terms.
CONFIDENCE_THRESHOLD == 700

RECURSIVE Gcd(_, _)
Gcd(a, b) == IF b = 0 THEN a ELSE Gcd(b, a % b)
Abs(a) == IF a < 0 THEN -a ELSE a
Frac(num, den) ==
    LET g == Gcd(Abs(num), den)
    IN  IF g = 0 THEN [num |-> 0, den |-> 1]
        ELSE [num |-> num \div g, den |-> den \div g]

\* ---------------------------------------------------- DocumentProcessor
\* A call either returns a value or raises.
Ret(v) == [ok |-> TRUE, v |-> v]
Raise(e) == [ok |-> FALSE, error |-> e]

\* d.get(key, default) on an object whose values are options.
Get(obj, key, default) == IF key \in DOMAIN obj THEN obj[key] ELSE default

\* extracted_data.get("fields", [])
FieldsOf(extracted_data) == Get(extracted_data, "fields", Some(<<>>))

\* [f.get("field_name", "").lower() for f in fields]; None.lower() raises.
FieldNamesRaise(fields) ==
    \E i \in 1..Len(fields) : Get(fields[i], "field_name", Some(<<>>)) = None
field_names(fields) ==
    [i \in 1..Len(fields) |-> Lower(Get(fields[i], "field_name", Some(<<>>))[1])]

AnyTerm(terms, text) == \E t \in terms : IsSubstr(t, text)

_categorize_document(extracted_data) ==
    IF "document_type" \in DOMAIN extracted_data
    THEN Ret(extracted_data["document_type"])
    ELSE LET fields == FieldsOf(extracted_data) IN
         IF fields = None THEN Raise("TypeError")
         ELSE IF FieldNamesRaise(fields[1]) THEN Raise("AttributeError")
         ELSE LET joined == Join(<<" ">>, field_names(fields[1])) IN
              IF AnyTerm({Kw_invoice, Kw_inv_no, Kw_invoice_number}, joined)
              THEN Ret(Some("invoice"))
              ELSE IF AnyTerm({Kw_receipt, Kw_transaction}, joined)
              THEN Ret(Some("receipt"))
              ELSE IF AnyTerm({Kw_purchase_order, Kw_po_number}, joined)
              THEN Ret(Some("purchase_order"))
              ELSE IF AnyTerm({Kw_bill, Kw_billing}, joined)
              THEN Ret(Some("bill"))
              ELSE Ret(Some("other"))

RECURSIVE SumSeq(_)
SumSeq(s) == IF s = <<>> THEN 0 ELSE s[1] + SumSeq(Tail(s))

\* The mean with a missing field confidence counted as 0.
_calculate_confidence_MissingAsZero(extracted_data) ==
    IF "confidence_score" \in DOMAIN extracted_data
    THEN IF extracted_data["confidence_score"] = None
         THEN Raise("TypeError")
         ELSE Ret(Frac(extracted_data["confidence_score"][1], 1000))
    ELSE LET fields == FieldsOf(extracted_data) IN
         IF fields = None \/ fields = Some(<<>>) THEN Ret(Frac(500, 1000))
         ELSE LET confidences ==
                      [i \in 1..Len(fields[1]) |->
                          Get(fields[1][i], "confidence", Some(0))]
              IN  IF \E i \in 1..Len(confidences) : confidences[i] = None
                  THEN Raise("TypeError")
                  ELSE Ret(Frac(SumSeq([i \in 1..Len(confidences) |-> confidences[i][1]]),
                                1000 * Len(confidences)))

_calculate_confidence(extracted_data) ==
    IF "confidence_score" \in DOMAIN extracted_data
    THEN IF extracted_data["confidence_score"] = None
         THEN Raise("TypeError")
         ELSE Ret(Frac(extracted_data["confidence_score"][1], 1000))
    ELSE LET fields == FieldsOf(extracted_data) IN
         IF fields = None \/ fields = Some(<<>>) THEN Ret(Frac(500, 1000))
         ELSE LET confidences ==
                      [i \in 1..Len(fields[1]) |->
                          Get(fields[1][i], "confidence", Some(500))]
              IN  IF \E i \in 1..Len(confidences) : confidences[i] = None
                  THEN Raise("TypeError")
                  ELSE Ret(Frac(SumSeq([i \in 1..Len(confidences) |-> confidences[i][1]]),
                                1000 * Len(confidences)))

\* The fields whose confidence is below the threshold, in order.
RECURSIVE LowConfidence(_)
LowConfidence(fields) ==
    IF fields = <<>> THEN <<>>
    ELSE LET f == fields[1] IN
         (IF Get(f, "confidence", Some(1000))[1] < CONFIDENCE_THRESHOLD
          THEN << Get(f, "field_name", None) >> ELSE <<>>)
         \o LowConfidence(Tail(fields))

_validate_data(extracted_data, document_type) ==
    LET fields == FieldsOf(extracted_data) IN
    IF fields = None THEN Raise("TypeError")
    ELSE IF FieldNamesRaise(fields[1]) THEN Raise("AttributeError")
    ELSE IF \E i \in 1..Len(fields[1]) : Get(fields[1][i], "confidence", Some(1000)) = None
    THEN Raise("TypeError")
    ELSE
    LET names == field_names(fields[1])
        field_dict == {names[i] : i \in 1..Len(names)}
        financial == document_type \in {Some("invoice"), Some("receipt"), Some("bill")}
        total == IF financial
                    /\ ~ \E key \in {Key_total, Key_amount, Key_total_amount, Key_grand_total} :
                           key \in field_dict
                 THEN << [field |-> "total", severity |-> "error"] >> ELSE <<>>
        date == IF financial
                   /\ ~ \E key \in {Key_date, Key_invoice_date, Key_receipt_date} :
                          key \in field_dict
                THEN << [field |-> "date", severity |-> "warning"] >> ELSE <<>>
        low_confidence_fields == LowConfidence(fields[1])
    IN  IF low_confidence_fields = <<>> THEN Ret(total \o date)
        ELSE IF \E i \in 1..Len(low_confidence_fields) : low_confidence_fields[i] = None
        THEN Raise("TypeError")
        ELSE Ret(total \o date \o
                 << [field |-> "confidence", severity |-> "warning",
                     names |-> [i \in 1..Len(low_confidence_fields) |->
                                   low_confidence_fields[i][1]]] >>)

\* _extract_with_vision: the client call, then json.loads of the content.
_extract_with_vision(reply) ==
    IF reply.kind = "transport_error" THEN Raise("APIError")
    ELSE IF reply.kind = "malformed" THEN Raise("JSONDecodeError")
    ELSE Ret(reply.json)

\* DocumentProcessor.process_document: every exception becomes a result
\* with success False.
_prepare_image(reply) ==
    IF reply.kind = "image_error" THEN Raise("ImageError") ELSE Ret("image_data")

Failure(e) == [success |-> FALSE, error |-> e]
DocumentProcessor_process_document(reply) ==
    LET image_data == _prepare_image(reply) IN
    IF ~image_data.ok THEN Failure(image_data.error)
    ELSE LET extracted == _extract_with_vision(reply) IN
    IF ~extracted.ok THEN Failure(extracted.error)
    ELSE LET document_type == _categorize_document(extracted.v) IN
    IF ~document_type.ok THEN Failure(document_type.error)
    ELSE LET confidence_score == _calculate_confidence(extracted.v) IN
    IF ~confidence_score.ok THEN Failure(confidence_score.error)
    ELSE LET validation_errors == _validate_data(extracted.v, document_type.v) IN
    IF ~validation_errors.ok THEN Failure(validation_errors.error)
    ELSE [success |-> TRUE,
          document_type |-> document_type.v,
          extracted_data |-> extracted.v,
          confidence_score |-> confidence_score.v,
          validation_errors |-> validation_errors.v]

\* ------------------------------------------------------------------ state
VARIABLES
    documents,        \* the documents table: id -> row, or NoRow
    processing_logs,  \* the processing_logs table, in insertion order
    uploading,        \* upload requests between their two commits
    units,            \* the background units launched so far, in launch order
    response,         \* the last response of a process / status request
    restarted,        \* history: a start request was accepted for the id
                      \* since its row last became failed
    export_files,     \* the number of export files opened for writing
    extraction,       \* the extraction result a processor function is given
    computed          \* what the last processor function call produced

vars == <<documents, processing_logs, uploading, units, response, restarted,
          export_files, extraction, computed>>

NoRow == [status |-> "none"]
NoResponse == [op |-> "none"]
NoOutcome == [op |-> "none"]

\* Document(...) at upload: the column defaults of database.py.
NewDocument ==
    [status |-> "pending",
     document_type |-> None,
     confidence_score |-> None,
     processing_time |-> None,
     extracted_data |-> None,
     validation_errors |-> None,
     processed_at |-> None,
     error_message |-> None,
     retry_count |-> 0]

Columns == DOMAIN NewDocument

ProcessingLog(document_id, event_type) ==
    [document_id |-> document_id, event_type |-> event_type]

Exists(d) == documents[d] # NoRow

\* The id an INSERT gets: one more than the largest id in the table.
NextId ==
    IF \E d \in DocIds : Exists(d)
    THEN 1 + CHOOSE d \in DocIds : Exists(d) /\ \A e \in DocIds : Exists(e) => e <= d
    ELSE 1

CountEvents(event_type) ==
    Cardinality({i \in 1..Len(processing_logs) : processing_logs[i].event_type = event_type})

\* A unit's position and its session's copy of the row.  The session is
\* the one of the start request (process.py 142 hands db to the task): it
\* holds the row as the request's select read it, until get_db closes it
\* (database.py 94-96).  closed: the close ran before the task's first
\* select (the dependency is left before the background tasks run) and
\* emptied the session; otherwise the session is closed after the task.
\* marked records that the commit of line 36 has returned in this unit,
\* deleted that a delete request removed the unit's document after the
\* launch and before the unit's end.
NewUnit(d, closed) ==
    [document_id |-> d, pc |-> "queued",
     document |-> IF closed THEN NoRow ELSE documents[d],
     error |-> "none", outcome |-> "none", marked |-> FALSE, deleted |-> FALSE]

\* What a select of the row yields in a session: the copy the session
\* already holds, unrefreshed, when it holds one, and the stored row when
\* it holds none.
Select(held, row) == IF held # NoRow THEN held ELSE row

Init ==
    /\ documents = [d \in DocIds |-> NoRow]
    /\ processing_logs = <<>>
    /\ uploading = {}
    /\ units = <<>>
    /\ response = NoResponse
    /\ restarted = [d \in DocIds |-> FALSE]
    /\ export_files = 0
    /\ extraction = None
    /\ computed = NoOutcome

\* The history variable: set by an accepted start request, reset by a step
\* that turns the row's status into failed.
Track(started) ==
    restarted' =
        [d \in DocIds |->
            IF d \in started THEN TRUE
            ELSE IF documents'[d].status = "failed" /\ documents[d].status # "failed"
            THEN FALSE
            ELSE restarted[d]]

\* ------------------------------------------------------------ the session
\* The UPDATE a flush emits sets the columns whose value differs from the
\* one the session loaded or last wrote.
Dirty(loaded, assigned) == {c \in DOMAIN assigned : assigned[c] # loaded[c]}

Assign(loaded, assigned) ==
    [c \in Columns |-> IF c \in DOMAIN assigned THEN assigned[c] ELSE loaded[c]]

Update(row, loaded, assigned) ==
    [c \in Columns |-> IF c \in Dirty(loaded, assigned) THEN assigned[c] ELSE row[c]]

\* The UPDATE matches no row: the flush raises StaleDataError.
Stale(d, loaded, assigned) == Dirty(loaded, assigned) # {} /\ ~Exists(d)

\* ------------------------------------------------- process_document_task
\* One action per stretch of the task between two awaits on the session.
\* ok = FALSE is the awaited storage call raising (database locked or
\* unavailable); the failed commit rolls its transaction back.
Goto(u, pc, document, error, outcome) ==
    units' = [units EXCEPT ![u] = [document_id |-> units[u].document_id,
                                   pc |-> pc, document |-> document,
                                   error |-> error, outcome |-> outcome,
                                   marked |-> units[u].marked \/ pc = "extracting",
                                   deleted |-> units[u].deleted]]

\* Lines 25-32: the select, and the return when there is no row.
task_load(u, ok) ==
    LET d == units[u].document_id IN
    /\ units[u].pc = "queued"
    /\ IF ~ok THEN Goto(u, "except", units[u].document, "OperationalError", "none")
       ELSE IF ~Exists(d) THEN Goto(u, "done", NoRow, "none", "not_found")
       ELSE Goto(u, "loaded", Select(units[u].document, documents[d]), "none", "none")
    /\ UNCHANGED <<documents, processing_logs, uploading, response>>
    /\ Track({})
    /\ UNCHANGED <<export_files, extraction, computed>>

\* Lines 35-36: status = "processing" and its commit.  A commit that
\* raises rolls the session back: it holds no copy of the row afterwards.
MarkProcessing == [status |-> "processing"]

task_mark_processing(u, ok) ==
    LET d == units[u].document_id
        loaded == units[u].document
    IN
    /\ units[u].pc = "loaded"
    /\ IF ~ok
       THEN /\ Goto(u, "except", NoRow, "OperationalError", "none")
            /\ UNCHANGED documents
       ELSE IF Stale(d, loaded, MarkProcessing)
       THEN /\ Goto(u, "except", NoRow, "StaleDataError", "none")
            /\ UNCHANGED documents
       ELSE /\ Goto(u, "extracting", Assign(loaded, MarkProcessing), "none", "none")
            /\ documents' = IF Exists(d)
                            THEN [documents EXCEPT ![d] = Update(@, loaded, MarkProcessing)]
                            ELSE documents
    /\ UNCHANGED <<processing_logs, uploading, response>>
    /\ Track({})
    /\ UNCHANGED <<export_files, extraction, computed>>

\* Lines 46-52 and 74-76: what the task assigns from the result.  The
\* duration and the completion time are values of this one attempt: they
\* are named by the unit that measured them.
Completed(u, result) ==
    [status |-> "completed",
     document_type |-> result.document_type,
     extracted_data |-> Some(result.extracted_data),
     confidence_score |-> Some(result.confidence_score),
     processing_time |-> Some(u),
     validation_errors |-> Some(result.validation_errors),
     processed_at |-> Some(u)]

Failed_NoRetryIncrement(loaded, result) ==
    [status |-> "failed",
     error_message |-> Some(result.error)]

Failed(loaded, result) ==
    [status |-> "failed",
     error_message |-> Some(result.error),
     retry_count |-> loaded.retry_count + 1]

ResultAssignments(u, loaded, result) ==
    IF result.success THEN Completed(u, result) ELSE Failed(loaded, result)

ResultLog(d, result) ==
    ProcessingLog(d, IF result.success THEN "extraction" ELSE "error")

\* Lines 39-90: the extractor answers, the task assigns the result, adds
\* the log entry and commits both.
task_finish(u, reply, ok) ==
    LET d == units[u].document_id
        loaded == units[u].document
        result == DocumentProcessor_process_document(reply)
        assigned == ResultAssignments(u, loaded, result)
    IN
    /\ units[u].pc = "extracting"
    /\ IF ~ok
       THEN /\ Goto(u, "except", NoRow, "OperationalError", "none")
            /\ UNCHANGED <<documents, processing_logs>>
       ELSE IF Stale(d, loaded, assigned)
       THEN /\ Goto(u, "except", NoRow, "StaleDataError", "none")
            /\ UNCHANGED <<documents, processing_logs>>
       ELSE /\ Goto(u, "done", NoRow, "none",
                    IF result.success THEN "completed" ELSE "failed")
            /\ documents' = [documents EXCEPT ![d] = Update(@, loaded, assigned)]
            /\ processing_logs' = Append(processing_logs, ResultLog(d, result))
    /\ UNCHANGED <<uploading, response>>
    /\ Track({})
    /\ UNCHANGED <<export_files, extraction, computed>>

\* Lines 96-99: the handler's select; an exception here is only logged.
task_except_load(u, ok) ==
    LET d == units[u].document_id IN
    /\ units[u].pc = "except"
    /\ IF ~ok THEN Goto(u, "done", NoRow, "none", "swallowed")
       ELSE IF ~Exists(d) THEN Goto(u, "done", NoRow, "none", "gone")
       ELSE Goto(u, "except_loaded", Select(units[u].document, documents[d]),
                 units[u].error, "none")
    /\ UNCHANGED <<documents, processing_logs, uploading, response>>
    /\ Track({})
    /\ UNCHANGED <<export_files, extraction, computed>>

\* Lines 101-103: status = "failed", error_message = str(e), commit.
ExceptAssignments(error) == [status |-> "failed", error_message |-> Some(error)]

\* The handler without its inner try: the failure leaves the unit.
task_except_commit_Escapes(u, ok) ==
    LET d == units[u].document_id
        loaded == units[u].document
        assigned == ExceptAssignments(units[u].error)
    IN
    /\ units[u].pc = "except_loaded"
    /\ IF ~ok \/ Stale(d, loaded, assigned)
       THEN /\ Goto(u, "raised", NoRow, "none", "escaped")
            /\ UNCHANGED documents
       ELSE /\ Goto(u, "done", NoRow, "none", "failed_in_handler")
            /\ documents' = IF Exists(d)
                            THEN [documents EXCEPT ![d] = Update(@, loaded, assigned)]
                            ELSE documents
    /\ UNCHANGED <<processing_logs, uploading, response>>
    /\ Track({})
    /\ UNCHANGED <<export_files, extraction, computed>>

task_except_commit(u, ok) ==
    LET d == units[u].document_id
        loaded == units[u].document
        assigned == ExceptAssignments(units[u].error)
    IN
    /\ units[u].pc = "except_loaded"
    /\ IF ~ok \/ Stale(d, loaded, assigned)
       THEN /\ Goto(u, "done", NoRow, "none", "swallowed")
            /\ UNCHANGED documents
       ELSE /\ Goto(u, "done", NoRow, "none", "failed_in_handler")
            /\ documents' = IF Exists(d)
                            THEN [documents EXCEPT ![d] = Update(@, loaded, assigned)]
                            ELSE documents
    /\ UNCHANGED <<processing_logs, uploading, response>>
    /\ Track({})
    /\ UNCHANGED <<export_files, extraction, computed>>

\* ------------------------------------------------------- request handlers
\* upload.py 66-79: the row is inserted and committed with status pending.
upload_document ==
    /\ NextId \in DocIds
    /\ CountEvents("upload") + Cardinality(uploading) < MaxUploads
    /\ NextId \notin uploading
    /\ documents' = [documents EXCEPT ![NextId] = NewDocument]
    /\ uploading' = uploading \cup {NextId}
    /\ UNCHANGED <<processing_logs, units, response>>
    /\ Track({})
    /\ UNCHANGED <<export_files, extraction, computed>>

\* upload.py 81-94: the upload log entry, in a commit of its own.
upload_log(d) ==
    /\ d \in uploading
    /\ processing_logs' = Append(processing_logs, ProcessingLog(d, "upload"))
    /\ uploading' = uploading \ {d}
    /\ UNCHANGED <<documents, units, response>>
    /\ Track({})
    /\ UNCHANGED <<export_files, extraction, computed>>

\* The guard comparing with the wrong status.
AlreadyProcessing_WrongStatus(document) == document.status = "completed"

\* process.py 135: the guard of the start request.
AlreadyProcessing(document) == document.status = "processing"

\* process.py 122-153: POST /api/process/{id}.
process_document(d) ==
    /\ IF ~Exists(d)
       THEN /\ response' = [op |-> "process", document_id |-> d, status_code |-> 404]
            /\ UNCHANGED units
       ELSE IF AlreadyProcessing(documents[d])
       THEN /\ response' = [op |-> "process", document_id |-> d, status_code |-> 400]
            /\ UNCHANGED units
       ELSE /\ Len(units) < MaxUnits
            /\ \E closed \in BOOLEAN : units' = Append(units, NewUnit(d, closed))
            /\ response' = [op |-> "process", document_id |-> d, status_code |-> 200]
    /\ UNCHANGED <<documents, processing_logs, uploading>>
    /\ Track(IF Exists(d) /\ ~AlreadyProcessing(documents[d]) THEN {d} ELSE {})
    /\ UNCHANGED <<export_files, extraction, computed>>

\* Python's truth value of the JSON column: NULL and {} are false.
Truthy(extracted_data) ==
    extracted_data # None /\ DOMAIN extracted_data[1] # {}

\* The report without the check of the status.
ReportedExtractedData_NoStatusCheck(document) ==
    IF Truthy(document.extracted_data) THEN document.extracted_data ELSE None

\* process.py 186-188: the extracted data the status query reports.
ReportedExtractedData(document) ==
    IF Truthy(document.extracted_data) /\ document.status = "completed"
    THEN document.extracted_data
    ELSE None

\* process.py 173-199: GET /api/process/{id}/status.
get_processing_status(d) ==
    /\ response' =
         IF ~Exists(d)
         THEN [op |-> "status", document_id |-> d, status_code |-> 404]
         ELSE [op |-> "status", document_id |-> d, status_code |-> 200,
               status |-> documents[d].status,
               document_type |-> documents[d].document_type,
               extracted_data |-> ReportedExtractedData(documents[d]),
               confidence_score |-> documents[d].confidence_score]
    /\ UNCHANGED <<documents, processing_logs, uploading, units>>
    /\ Track({})
    /\ UNCHANGED <<export_files, extraction, computed>>

\* The units that have not ended when document d is deleted.
NoteDeleted(d) ==
    [u \in 1..Len(units) |->
        IF units[u].document_id = d /\ units[u].pc # "done"
        THEN [units[u] EXCEPT !.deleted = TRUE]
        ELSE units[u]]

\* The delete taking the document's log entries with it.
delete_document_WithLog(d) ==
    /\ Exists(d)
    /\ documents' = [documents EXCEPT ![d] = NoRow]
    /\ processing_logs' = SelectSeq(processing_logs, LAMBDA e : e.document_id # d)
    /\ units' = NoteDeleted(d)
    /\ UNCHANGED <<uploading, response>>
    /\ Track({})
    /\ UNCHANGED <<export_files, extraction, computed>>

\* documents.py 115-130: DELETE /api/documents/{id}; the log stays.
delete_document(d) ==
    /\ Exists(d)
    /\ documents' = [documents EXCEPT ![d] = NoRow]
    /\ units' = NoteDeleted(d)
    /\ UNCHANGED <<processing_logs, uploading, response>>
    /\ Track({})
    /\ UNCHANGED <<export_files, extraction, computed>>

\* ------------------------------------------------------------- statistics
AddFrac(a, b) == Frac(a.num * b.den + b.num * a.den, a.den * b.den)

RECURSIVE Pow10(_)
Pow10(n) == IF n = 0 THEN 1 ELSE 10 * Pow10(n - 1)

\* round(x, digits): to the nearest multiple of 10^-digits, a tie to the
\* even one.
Round(x, digits) ==
    LET n == x.num * Pow10(digits)
        q == n \div x.den
        r == n % x.den
    IN  Frac(IF 2 * r > x.den \/ (2 * r = x.den /\ q % 2 = 1) THEN q + 1 ELSE q,
             Pow10(digits))

\* select(func.count()).select_from(Document).where(Document.status == ...)
CountStatus(status) ==
    Cardinality({d \in DocIds : Exists(d) /\ documents[d].status = status})

\* select(func.avg(column)).where(column.isnot(None)): NULL over no row.
Avg(values) ==
    LET rows == DOMAIN values
        sum[d \in 0..MaxDocs] ==
            IF d = 0 THEN Frac(0, 1)
            ELSE IF d \in rows THEN AddFrac(sum[d - 1], values[d])
            ELSE sum[d - 1]
    IN  IF rows = {} THEN None
        ELSE Some(Frac(sum[MaxDocs].num, sum[MaxDocs].den * Cardinality(rows)))

\* avg_..._result.scalar() or 0.0
OrZero(scalar) ==
    IF scalar = None \/ scalar = Some(Frac(0, 1)) THEN Frac(0, 1) ELSE scalar[1]

ProcessingTime(d) == Frac(documents[d].processing_time[1], 1)
ConfidenceScore(d) == documents[d].confidence_score[1]

\* select(Document.document_type, func.count()) ... group_by
documents_by_type ==
    LET typed == {d \in DocIds : Exists(d) /\ documents[d].document_type # None}
    IN  [t \in {documents[d].document_type[1] : d \in typed} |->
            Cardinality({d \in typed : documents[d].document_type[1] = t})]

\* schemas.py: the fields of ProcessingStatistics without and with a default.
ProcessingStatistics_required ==
    {"total_documents", "pending", "processing", "completed", "failed"}
ProcessingStatistics_optional ==
    {"average_processing_time", "total_processing_time"}

\* ProcessingStatistics(**kwargs): a required field that is not given is a
\* ValidationError; a keyword that is no field is ignored.
ProcessingStatistics(kwargs) ==
    IF ~(ProcessingStatistics_required \subseteq DOMAIN kwargs)
    THEN Raise("ValidationError")
    ELSE Ret([f \in (ProcessingStatistics_required \cup ProcessingStatistics_optional)
                        \cap DOMAIN kwargs |-> kwargs[f]])

\* documents.py 202-211: the keywords get_statistics passes.
StatisticsKeywords ==
    LET processed_documents == CountStatus("completed") IN
    [total_documents |-> Cardinality({d \in DocIds : Exists(d)}),
     processed_documents |-> processed_documents,
     failed_documents |-> CountStatus("failed"),
     pending_documents |-> CountStatus("pending"),
     average_processing_time |->
        Round(OrZero(Avg([d \in {e \in DocIds : Exists(e) /\ documents[e].processing_time # None}
                             |-> ProcessingTime(d)])), 2),
     average_confidence_score |->
        Round(OrZero(Avg([d \in {e \in DocIds : Exists(e) /\ documents[e].confidence_score # None}
                             |-> ConfidenceScore(d)])), 3),
     documents_by_type |-> documents_by_type,
     total_time_saved |-> Round(Frac(processed_documents * 5, 60), 2)]

\* documents.py 149-218: GET /api/statistics; an exception while the
\* response is built becomes the 500 failure.
get_statistics ==
    LET statistics == ProcessingStatistics(StatisticsKeywords) IN
    /\ response' =
           IF statistics.ok
           THEN [op |-> "statistics", status_code |-> 200, body |-> statistics.v]
           ELSE [op |-> "statistics", status_code |-> 500, error |-> statistics.error]
    /\ UNCHANGED <<documents, processing_logs, uploading, units, restarted>>
    /\ UNCHANGED <<export_files, extraction, computed>>

\* ----------------------------------------------------------------- export
\* ExportRequest.document_ids: no list, or a list of ids, known or not.
ExportRequests ==
    {None, Some(<<>>)} \cup {Some(<<d>>) : d \in 1..(MaxDocs + 1)}

\* The selection that ignores the status.
Selected_AnyStatus(document_ids) ==
    {d \in DocIds :
        /\ Exists(d)
        /\ (document_ids # None /\ document_ids[1] # <<>>)
           => \E i \in 1..Len(document_ids[1]) : document_ids[1][i] = d}

\* export.py 30-35: the completed rows, among the requested ids when the
\* request names some (no list and an empty list are both false).
Selected(document_ids) ==
    {d \in DocIds :
        /\ Exists(d)
        /\ documents[d].status = "completed"
        /\ (document_ids # None /\ document_ids[1] # <<>>)
           => \E i \in 1..Len(document_ids[1]) : document_ids[1][i] = d}

\* export.py 62-64: the loop over extracted_data['fields'] raises when the
\* value under 'fields' is null.
RowsRaise(selected) ==
    \E d \in selected :
        /\ Truthy(documents[d].extracted_data)
        /\ "fields" \in DOMAIN documents[d].extracted_data[1]
        /\ documents[d].extracted_data[1]["fields"] = None

\* export.py 22-102: POST /api/export.  The 404 is raised before the file
\* is opened; a failure after that leaves the file behind.
export_documents(document_ids) ==
    LET selected == Selected(document_ids) IN
    /\ selected # {} => export_files < MaxExports
    /\ IF selected = {}
       THEN /\ response' = [op |-> "export", status_code |-> 404,
                            detail |-> "No documents found"]
            /\ UNCHANGED export_files
       ELSE /\ export_files' = export_files + 1
            /\ response' =
                   IF RowsRaise(selected)
                   THEN [op |-> "export", status_code |-> 500, detail |-> "TypeError"]
                   ELSE [op |-> "export", status_code |-> 200,
                         record_count |-> Cardinality(selected)]
    /\ UNCHANGED <<documents, processing_logs, uploading, units, restarted>>
    /\ UNCHANGED <<extraction, computed>>

\* -------------------------------------------------------------- the system
Next ==
    \/ upload_document
    \/ \E d \in DocIds : upload_log(d)
    \/ \E d \in DocIds : process_document(d)
    \/ \E d \in DocIds : get_processing_status(d)
    \/ \E d \in DocIds : delete_document(d)
    \/ \E u \in 1..Len(units), ok \in BOOLEAN : task_load(u, ok)
    \/ \E u \in 1..Len(units), ok \in BOOLEAN : task_mark_processing(u, ok)
    \/ \E u \in 1..Len(units), ok \in BOOLEAN, reply \in Replies : task_finish(u, reply, ok)
    \/ \E u \in 1..Len(units), ok \in BOOLEAN : task_except_load(u, ok)
    \/ \E u \in 1..Len(units), ok \in BOOLEAN : task_except_commit(u, ok)

Spec == Init /\ [][Next]_vars

\* The event loop runs every background unit it was handed: a unit that
\* can take a step eventually takes one.
UnitStep(u) ==
    /\ u <= Len(units)
    /\ \E ok \in BOOLEAN :
          \/ task_load(u, ok)
          \/ task_mark_processing(u, ok)
          \/ \E reply \in Replies : task_finish(u, reply, ok)
          \/ task_except_load(u, ok)
          \/ task_except_commit(u, ok)

FairSpec == Spec /\ \A u \in 1..MaxUnits : WF_vars(UnitStep(u))

\* ------------------------------------------------- the document queries
\* documents.py 83-94: GET /api/documents/{id}.
get_document(d) ==
    /\ response' =
         IF ~Exists(d)
         THEN [op |-> "get", document_id |-> d, status_code |-> 404]
         ELSE [op |-> "get", document_id |-> d, status_code |-> 200,
               status |-> documents[d].status,
               document_type |-> documents[d].document_type,
               confidence_score |-> documents[d].confidence_score,
               extracted_data |-> documents[d].extracted_data,
               processed_at |-> documents[d].processed_at]
    /\ UNCHANGED <<documents, processing_logs, uploading, units>>
    /\ Track({})
    /\ UNCHANGED <<export_files, extraction, computed>>

\* The status filters a list request is made with: none, or one status.
StatusFilters == {None, Some("completed")}

\* documents.py 33-34 and 43-44: the rows a list request selects; an empty
\* filter is no filter.
Listed(status) ==
    {d \in DocIds : Exists(d) /\ (status # None => documents[d].status = status[1])}

\* documents.py 28-64: GET /api/documents, first page.
list_documents(status) ==
    /\ response' = [op |-> "list", status_code |-> 200,
                    total |-> Cardinality(Listed(status)),
                    documents |-> Listed(status)]
    /\ UNCHANGED <<documents, processing_logs, uploading, units>>
    /\ Track({})
    /\ UNCHANGED <<export_files, extraction, computed>>

\* The lifecycle together with the reporting requests and the queries.
NextService ==
    \/ Next
    \/ get_statistics
    \/ \E document_ids \in ExportRequests : export_documents(document_ids)
    \/ \E d \in DocIds : get_document(d)
    \/ \E status \in StatusFilters : list_documents(status)

SpecService == Init /\ [][NextService]_vars

\* ------------------------------------------- the processor's pure functions
\* The three functions process_document applies to a parsed reply, each on
\* its own, over a bounded set of parsed replies.
\* Largest number of fields of a parsed reply.
MaxFields == 2

FieldInv == <<"I", "n", "v">>
FieldNo == <<"N", "o">>
FieldReceipt == <<"R", "e", "c", "e", "i", "p", "t">>
FieldBill == <<"B", "i", "l", "l">>
FieldNames == {FieldTotal, FieldInvoiceDate, FieldInv, FieldNo, FieldReceipt, FieldBill}

\* Confidences of a field, in thousandths: below and above the threshold.
FieldConfidences == {600, 900}

\* A field object has a name, a confidence, or both.
ExtractedFields ==
    {[field_name |-> Some(n), confidence |-> Some(c)] : n \in FieldNames, c \in FieldConfidences}
    \cup {[field_name |-> Some(n)] : n \in FieldNames}
    \cup {[confidence |-> Some(c)] : c \in FieldConfidences}

FieldLists == UNION {[1..n -> ExtractedFields] : n \in 0..MaxFields}

\* A parsed reply: 'fields' is a list or null; a document_type or a
\* confidence_score is present or not.
ExtractionResults ==
    LET fields == {None} \cup {Some(fs) : fs \in FieldLists}
        types == {Some("receipt"), None}
        scores == {920}
    IN  {[fields |-> f] : f \in fields}
        \cup {[fields |-> f, document_type |-> t] : f \in fields, t \in types}
        \cup {[fields |-> f, confidence_score |-> Some(c)] : f \in fields, c \in scores}

\* The document types _validate_data is called with.
DocumentTypes == {Some("invoice"), Some("receipt"), Some("bill"), Some("other"), None}

InitProcessor ==
    /\ documents = [d \in DocIds |-> NoRow]
    /\ processing_logs = <<>>
    /\ uploading = {}
    /\ units = <<>>
    /\ response = NoResponse
    /\ restarted = [d \in DocIds |-> FALSE]
    /\ export_files = 0
    /\ extraction \in {Some(e) : e \in ExtractionResults}
    /\ computed = NoOutcome

categorize_document ==
    /\ computed' = [op |-> "_categorize_document",
                    result |-> _categorize_document(extraction[1])]
    /\ UNCHANGED <<documents, processing_logs, uploading, units, response, restarted>>
    /\ UNCHANGED <<export_files, extraction>>

calculate_confidence ==
    /\ computed' = [op |-> "_calculate_confidence",
                    result |-> _calculate_confidence(extraction[1])]
    /\ UNCHANGED <<documents, processing_logs, uploading, units, response, restarted>>
    /\ UNCHANGED <<export_files, extraction>>

validate_data(document_type) ==
    /\ computed' = [op |-> "_validate_data", document_type |-> document_type,
                    result |-> _validate_data(extraction[1], document_type)]
    /\ UNCHANGED <<documents, processing_logs, uploading, units, response, restarted>>
    /\ UNCHANGED <<export_files, extraction>>

NextProcessor ==
    \/ categorize_document
    \/ calculate_confidence
    \/ \E document_type \in DocumentTypes : validate_data(document_type)

SpecProcessor == InitProcessor /\ [][NextProcessor]_vars

\* ============================================================= properties
Status(d) == documents[d].status
UnitsOf(d) == {u \in 1..Len(units) : units[u].document_id = d}

\* A unit between its start and its terminal write, on the task's main
\* path: it has read the row and has neither committed its result nor
\* entered its exception handler.
Active(u) == units[u].pc \in {"loaded", "extracting"}

\* The row of d exists before and after the step and its status changes
\* from one value to another.
StatusChange(d) ==
    /\ Exists(d)
    /\ documents'[d] # NoRow
    /\ documents'[d].status # documents[d].status

Enters(d, status) == StatusChange(d) /\ documents'[d].status = status

\* C1: for every document, at most one background unit is active (between
\* its start and its terminal write) at any time.
C1_AtMostOneActiveUnit ==
    \A d \in DocIds : Cardinality({u \in UnitsOf(d) : Active(u)}) <= 1

\* C2: a start request on a document whose persisted status is processing
\* is answered with the conflict failure, launches no unit and changes no
\* document and no log entry.
C2_StartOnProcessingRejected ==
    [][\A d \in DocIds :
          (process_document(d) /\ Exists(d) /\ Status(d) = "processing")
          => /\ response' = [op |-> "process", document_id |-> d, status_code |-> 400]
             /\ UNCHANGED <<documents, processing_logs, units>>]_vars

C2_Witness ==
    \E d \in DocIds :
        /\ response = [op |-> "process", document_id |-> d, status_code |-> 400]
        /\ Exists(d)
        /\ Status(d) = "processing"
        /\ \E u \in UnitsOf(d) : units[u].pc = "extracting"

\* C3: every change of a document's persisted status is one of
\* pending->processing, failed->processing, processing->completed,
\* processing->failed.
AllowedTransitions ==
    { <<"pending", "processing">>, <<"failed", "processing">>,
      <<"processing", "completed">>, <<"processing", "failed">> }

C3_OnlyFourTransitions ==
    [][\A d \in DocIds :
          StatusChange(d)
          => <<documents[d].status, documents'[d].status>> \in AllowedTransitions]_vars

\* C4: for every persisted document, extracted_data is present if and only
\* if its status is completed.
C4_ExtractedDataIffCompleted ==
    \A d \in DocIds :
        Exists(d) => (documents[d].extracted_data # None <=> Status(d) = "completed")

\* C5: retry_count increases by exactly 1 on every transition into failed
\* and changes at no other time.
C5_RetryCountCountsFailures ==
    [][\A d \in DocIds :
          (Exists(d) /\ documents'[d] # NoRow)
          => /\ Enters(d, "failed")
                => documents'[d].retry_count = documents[d].retry_count + 1
             /\ documents'[d].retry_count # documents[d].retry_count
                => Enters(d, "failed")]_vars

\* C6: no document stays in processing forever: while a document is in
\* processing, a unit for it is still running and will write its terminal
\* status.
C6_ProcessingHasRunningUnit ==
    \A d \in DocIds :
        (Exists(d) /\ Status(d) = "processing")
        => \E u \in UnitsOf(d) : units[u].pc # "done"

\* C7: the status query reports extracted_data as absent whenever the
\* persisted status it reports is not completed.
C7_StatusQueryHidesStaleData ==
    (response.op = "status" /\ response.status_code = 200
        /\ response.status # "completed")
    => response.extracted_data = None

C7_Witness ==
    /\ response.op = "status"
    /\ response.status_code = 200
    /\ response.status = "failed"
    /\ response.extracted_data = None
    /\ documents[response.document_id] # NoRow
    /\ documents[response.document_id].status = "failed"
    /\ documents[response.document_id].extracted_data # None

\* C8: every transition of a document into failed is committed together
\* with an error_message on the document and exactly one newly appended
\* error log entry for that document.
C8_FailedHasMessageAndLog ==
    [][\A d \in DocIds :
          Enters(d, "failed")
          => /\ documents'[d].error_message # None
             /\ processing_logs' = Append(processing_logs, ProcessingLog(d, "error"))]_vars

\* C9: every transition of a document into completed is committed together
\* with one newly appended extraction log entry for it, and a completed
\* document has document_type, extracted_data, confidence_score,
\* processing_time, validation_errors and processed_at present.
CompletionColumns ==
    {"document_type", "extracted_data", "confidence_score",
     "processing_time", "validation_errors", "processed_at"}

C9_CompletedHasAllFields ==
    [][\A d \in DocIds :
          /\ Enters(d, "completed")
             => processing_logs' = Append(processing_logs, ProcessingLog(d, "extraction"))
          /\ (documents'[d] # NoRow /\ documents'[d].status = "completed")
             => \A c \in CompletionColumns : documents'[d][c] # None]_vars

\* C10: a failed document keeps its status and its error_message until a
\* new start request is issued, and a start request on a failed document
\* is accepted and launches a unit.
C10_FailedUntilRestarted ==
    [][\A d \in DocIds :
          /\ (Exists(d) /\ Status(d) = "failed" /\ documents'[d] # NoRow
                /\ \/ documents'[d].status # "failed"
                   \/ documents'[d].error_message # documents[d].error_message)
             => restarted[d]
          /\ (process_document(d) /\ Exists(d) /\ Status(d) = "failed")
             => /\ response' = [op |-> "process", document_id |-> d, status_code |-> 200]
                /\ \E closed \in BOOLEAN :
                      units' = Append(units, NewUnit(d, closed))]_vars

\* C11: when the only background unit of a freshly uploaded document (never
\* processed, retry_count 0) gets a model reply that is not valid JSON and
\* commits its result, the persisted row has status failed, retry_count 1,
\* an error message and no extracted data.
C11_MalformedReplyFails ==
    [][\A u \in 1..Len(units) :
          LET d == units[u].document_id IN
          (/\ UnitsOf(d) = {u}
           /\ Exists(d)
           /\ documents[d].retry_count = 0
           /\ task_finish(u, ReplyMalformed, TRUE)
           /\ units'[u].pc = "done")
          => /\ documents'[d].status = "failed"
             /\ documents'[d].retry_count = 1
             /\ documents'[d].error_message # None
             /\ documents'[d].extracted_data = None]_vars

C11_Witness ==
    \E d \in DocIds :
        /\ Len(units) = 1
        /\ units[1] = [NewUnit(d, TRUE) EXCEPT !.pc = "done", !.outcome = "failed",
                                            !.marked = TRUE]
        /\ Exists(d)
        /\ documents[d].status = "failed"
        /\ documents[d].retry_count = 1
        /\ documents[d].error_message = Some("JSONDecodeError")
        /\ documents[d].extracted_data = None

\* C12: the statistics request never ends in an error: whatever the
\* document set, and on the empty set in particular, its response is the
\* successful one.
C12_StatisticsNeverFail ==
    response.op = "statistics" => response.status_code = 200

\* C13: an export request selects only completed documents, among the
\* requested ids when the request names some; when no such document exists
\* it is answered 404 'No documents found' and opens no export file.
C13_ExportOnlyCompleted ==
    [][\A document_ids \in ExportRequests :
          LET named == document_ids # None /\ document_ids[1] # <<>>
              eligible ==
                  {d \in DocIds :
                      /\ documents[d] # NoRow
                      /\ documents[d].status = "completed"
                      /\ named => d = document_ids[1][1]}
          IN  export_documents(document_ids)
              => /\ eligible = {}
                    => /\ response' = [op |-> "export", status_code |-> 404,
                                       detail |-> "No documents found"]
                       /\ export_files' = export_files
                 /\ response'.status_code = 200
                    => response'.record_count = Cardinality(eligible)
                 /\ export_files' # export_files => eligible # {}]_vars

C13_Witness ==
    /\ response = [op |-> "export", status_code |-> 404, detail |-> "No documents found"]
    /\ export_files = 0
    /\ \E d \in DocIds : Exists(d) /\ documents[d].status = "failed"

\* The fields of the result _categorize_document was given last.
Fields == extraction[1]["fields"][1]
NameOf(f) == Lower(Get(f, "field_name", Some(<<>>))[1])
Categorized == computed.op = "_categorize_document"

\* Some field of the result has a lowercased name that contains one of the
\* keywords.
InSomeName(keywords) ==
    \E i \in 1..Len(Fields) : \E k \in keywords : IsSubstr(k, NameOf(Fields[i]))

\* C14: without an explicit document_type the resolved type is the first
\* match in the order invoice > receipt > purchase_order > bill > other,
\* where a keyword counts only if it occurs in some field name (so the
\* type depends on the set of lowercased names only); an explicit
\* document_type is returned verbatim.
C14_CategorizeBySetOfNames ==
    Categorized =>
        IF "document_type" \in DOMAIN extraction[1]
        THEN computed.result = Ret(extraction[1]["document_type"])
        ELSE extraction[1]["fields"] # None
             => computed.result =
                    Ret(Some(IF InSomeName({Kw_invoice, Kw_inv_no, Kw_invoice_number})
                             THEN "invoice"
                             ELSE IF InSomeName({Kw_receipt, Kw_transaction})
                             THEN "receipt"
                             ELSE IF InSomeName({Kw_purchase_order, Kw_po_number})
                             THEN "purchase_order"
                             ELSE IF InSomeName({Kw_bill, Kw_billing})
                             THEN "bill"
                             ELSE "other"))

\* The confidence of a field in thousandths, a missing one counted as 0.5.
ConfidenceOr500(f) == IF "confidence" \in DOMAIN f THEN f["confidence"][1] ELSE 500

\* The sum of the field confidences of the result, in thousandths.
TotalConfidence ==
    LET total[i \in 0..Len(Fields)] ==
            IF i = 0 THEN 0 ELSE total[i - 1] + ConfidenceOr500(Fields[i])
    IN  total[Len(Fields)]

NoFields == extraction[1]["fields"] = None \/ extraction[1]["fields"] = Some(<<>>)

Validated == computed.op = "_validate_data" /\ extraction[1]["fields"] # None

\* The findings of the last _validate_data call on the given field.
FindingsOn(field) ==
    {i \in 1..Len(computed.result.v) : computed.result.v[i].field = field}

\* C16: for the document types invoice, receipt and bill the findings of
\* _validate_data contain an 'error' finding on 'total' if and only if no
\* field's lowercased name is total, amount, total amount or grand total;
\* for every other type they contain no finding on 'total'.
C16_TotalRule ==
    Validated =>
        IF computed.document_type \in {Some("invoice"), Some("receipt"), Some("bill")}
        THEN (/\ computed.result.ok
              /\ \E i \in FindingsOn("total") : computed.result.v[i].severity = "error")
             <=> ~ \E i \in 1..Len(Fields) :
                     NameOf(Fields[i]) \in
                         {Key_total, Key_amount, Key_total_amount, Key_grand_total}
        ELSE computed.result.ok => FindingsOn("total") = {}

\* The fields of the result whose confidence is below the threshold.
BelowThreshold ==
    {i \in 1..Len(Fields) :
        "confidence" \in DOMAIN Fields[i]
        /\ Fields[i]["confidence"][1] < CONFIDENCE_THRESHOLD}

\* C17: when no field confidence is below the threshold _validate_data
\* produces no finding on 'confidence'; when some is, it produces exactly
\* one, a warning, that names every field below the threshold and no other.
C17_LowConfidenceRule ==
    Validated =>
        /\ computed.result.ok
        /\ IF BelowThreshold = {}
           THEN FindingsOn("confidence") = {}
           ELSE /\ Cardinality(FindingsOn("confidence")) = 1
                /\ \A i \in FindingsOn("confidence") :
                      /\ computed.result.v[i].severity = "warning"
                      /\ Len(computed.result.v[i].names) = Cardinality(BelowThreshold)
                      /\ \A j \in BelowThreshold :
                            /\ "field_name" \in DOMAIN Fields[j]
                            /\ \E k \in 1..Len(computed.result.v[i].names) :
                                  Some(computed.result.v[i].names[k]) = Fields[j]["field_name"]
                      /\ \A k \in 1..Len(computed.result.v[i].names) :
                            \E j \in BelowThreshold :
                                /\ "field_name" \in DOMAIN Fields[j]
                                /\ Some(computed.result.v[i].names[k]) = Fields[j]["field_name"]

\* The field confidences (thousandths) inside a persisted extracted_data.
PersistedFieldConfidences(d) ==
    LET data == documents[d].extracted_data IN
    IF data = None \/ "fields" \notin DOMAIN data[1] \/ data[1]["fields"] = None THEN {}
    ELSE {data[1]["fields"][1][i]["confidence"][1] :
             i \in {j \in 1..Len(data[1]["fields"][1]) :
                       /\ "confidence" \in DOMAIN data[1]["fields"][1][j]
                       /\ data[1]["fields"][1][j]["confidence"] # None}}

\* C18: every persisted confidence_score and every field confidence inside
\* a persisted extracted_data lies between 0.0 and 1.0.
C18_ConfidencesInRange ==
    \A d \in DocIds :
        Exists(d) =>
            /\ documents[d].confidence_score # None
               => /\ 0 <= documents[d].confidence_score[1].num
                  /\ documents[d].confidence_score[1].num <= documents[d].confidence_score[1].den
            /\ \A c \in PersistedFieldConfidences(d) : 0 <= c /\ c <= 1000

\* The parsed reply is an object with the six prompted keys: a type, an
\* aggregate confidence, a list of fields, a list of line items, the raw
\* text and the metadata.
ExpectedShape(reply) ==
    /\ reply.kind = "object"
    /\ {"document_type", "confidence_score", "fields", "line_items", "raw_text",
        "metadata"} \subseteq DOMAIN reply.json
    /\ \A key \in {"document_type", "confidence_score", "fields", "line_items",
                   "raw_text", "metadata"} : reply.json[key] # None

\* C19: a unit whose model reply is not valid JSON of the expected shape
\* never writes status completed.
C19_MisshapenReplyFails ==
    [][\A u \in 1..Len(units) : \A reply \in Replies :
          (task_finish(u, reply, TRUE) /\ ~ExpectedShape(reply))
          => units'[u].outcome # "completed"]_vars

\* Unit u ends in this step.
Ends(u) == units[u].pc # "done" /\ units'[u].pc = "done"

\* The row unit u's handler read is still in the table with the status it
\* was read with (it was not deleted or rewritten since the handler's
\* select).
RowAsRead(u) ==
    /\ documents[units[u].document_id] # NoRow
    /\ documents[units[u].document_id].status = units[u].document.status

CallsExtractor(u) ==
    /\ units[u].pc = "extracting"
    /\ units'[u] # units[u]

\* Unit u writes a terminal status in this step (lines 46, 74 and 102 with
\* their commits): the step is u's, and it changes the row into one whose
\* status is completed or failed.
WritesTerminalStatus(u) ==
    /\ units'[u] # units[u]
    /\ documents'[units[u].document_id] # documents[units[u].document_id]
    /\ documents'[units[u].document_id].status \in {"completed", "failed"}

\* Unit u adds an extraction or error log entry in this step (lines 54-66
\* and 79-86).
WritesResultLog(u) ==
    /\ units'[u] # units[u]
    /\ Len(processing_logs') = Len(processing_logs) + 1
    /\ processing_logs'[Len(processing_logs')].event_type \in {"extraction", "error"}

\* C21: within one background unit the committed write of status
\* processing comes before the call of the extractor, and the call before
\* the write of the terminal status and of its log entry: a unit calls the
\* extractor, writes completed or failed, or adds an extraction or error
\* log entry only after its commit of processing has returned.
C21_ProcessingBeforeTerminal ==
    [][\A u \in 1..Len(units) :
          (CallsExtractor(u) \/ WritesTerminalStatus(u) \/ WritesResultLog(u))
          => units[u].marked]_vars

\* Unit u reads the row in this step: the select of lines 25-28 or the
\* handler's select of lines 96-99 yields a row.
ReadsRow(u) ==
    \/ units[u].pc = "queued" /\ units'[u].pc = "loaded"
    \/ units[u].pc = "except" /\ units'[u].pc = "except_loaded"

\* C22: every background unit reads and commits through a session of its
\* own, apart from the session of the request that launched it, so that
\* the closing of the request's session makes no difference to the unit:
\* whether or not that session was closed before the unit ran, the row a
\* select of the unit yields is the row as stored at that moment, and it
\* is against that row that the unit's commits are computed.
C22_UnitReadsThroughOwnSession ==
    [][\A u \in 1..Len(units) :
          ReadsRow(u) => units'[u].document = documents[units[u].document_id]]_vars

\* The log before the step is the beginning of the log after it.
LogGrows ==
    /\ Len(processing_logs') >= Len(processing_logs)
    /\ SubSeq(processing_logs', 1, Len(processing_logs)) = processing_logs

\* C23: the processing log is append-only: in every step of every
\* operation (upload, start, the background unit's steps, status query,
\* get, list, export, statistics, delete) the log after the step begins
\* with the log before it, entry for entry; the entries of a deleted
\* document stay.
C23_LogAppendOnly == [][LogGrows]_vars

\* A document was processed and then deleted: its upload and extraction
\* entries are in the log and its row is not in the table.
C23_Witness ==
    \E d \in DocIds :
        /\ ~Exists(d)
        /\ \E i, j \in 1..Len(processing_logs) :
              /\ i < j
              /\ processing_logs[i] = ProcessingLog(d, "upload")
              /\ processing_logs[j] = ProcessingLog(d, "extraction")

\* Document id d was deleted while one of its units was pending or in
\* flight.
DeletedInFlight(d) == \E u \in UnitsOf(d) : units[u].deleted

\* The answer of a get, status or start request for id d in this step.
AnswersFor(d) ==
    /\ response' # response
    /\ response'.op \in {"get", "status", "process"}
    /\ response'.document_id = d

\* C24: delete is final under interleaving.  Once a delete request has
\* removed a document while a unit of it was pending or in flight, no
\* step of such a unit writes to the table, the id has no row and so no
\* persisted status, and every get, status and start request for the id
\* is answered not-found.
C24_DeleteIsFinal ==
    [][/\ \A u \in 1..Len(units) :
             (units[u].deleted /\ units'[u] # units[u]) => documents' = documents
       /\ \A d \in DocIds :
             DeletedInFlight(d) =>
                 /\ documents'[d] = NoRow
                 /\ AnswersFor(d) => response'.status_code = 404]_vars

============================================================================
